---------------------------- MODULE Spec2Model ----------------------------
(* A model of collect_data.py: one run of main(), which reads the API key,   *)
(* fetches the offers, projects each offer to a record, loads the dataset    *)
(* file, appends, rewrites the file and prints a summary of the last batch.  *)
EXTENDS Integers, Sequences, FiniteSets

VARIABLES
    environ,        \* value of the VAST_API_KEY environment variable
    http,           \* the response the API gives to the POST: [status, body]
    file,           \* content of data/vast_historical_data.json
    file0,          \* content of the file when main() started
    clock,          \* the wall clock read by datetime.now()
    pc,             \* position of the run inside main()
    offers,         \* offers returned by fetch_vast_offers
    idx,            \* 1-based index of the next offer of the loop in collect_data
    records,        \* records accumulated by collect_data (new_records in main)
    existing_data,  \* result of load_existing_data
    all_records,    \* existing_data + new_records
    stats,          \* result of get_summary_stats
    exc,            \* class of the exception being propagated, "none" if none
    raised,         \* class of the exception that reached main's handlers
    out,            \* messages printed so far
    netCalls,       \* number of requests.post calls made
    saveCalls,      \* number of save_data calls made
    exitCode        \* -1 while running, then the exit status of the process

vars == <<environ, http, file, file0, clock, pc, offers, idx, records,
          existing_data, all_records, stats, exc, raised, out, netCalls,
          saveCalls, exitCode>>

-----------------------------------------------------------------------------
(* Bounds of the model.                                                      *)

\* longest offers list the API returns
MaxOffers == 3
\* what the clock may advance by between two reads of datetime.now(): nothing
\* that datetime can show, or something
Ticks == {0, 1}
\* the tick at which main() starts; the earlier runs wrote at ticks before it
ClockStart == 2
\* longest dataset given to get_summary_stats in SpecStats
MaxStatLen == 4

-----------------------------------------------------------------------------
(* Python values: a tag and a payload.                                       *)

PyNone == <<"NoneType", 0>>
PyInt(n) == <<"int", n>>
PyStr(s) == <<"str", s>>
PyBool(b) == <<"bool", b>>
PyDict(d) == <<"dict", d>>
PyList(s) == <<"list", s>>
\* the str that now.isoformat() gives at tick n, and now.strftime("%Y-%m-%d") on day n
PyIso(n) == <<"isoformat", n>>
PyDate(n) == <<"date", n>>

\* bool(v), as the `if` statements of the source apply it
Truthy(v) ==
    CASE v[1] = "NoneType" -> FALSE
      [] v[1] = "bool" -> v[2]
      [] v[1] = "int" -> v[2] # 0
      [] v[1] = "str" -> v[2] # ""
      [] v[1] = "dict" -> DOMAIN v[2] # {}
      [] v[1] = "list" -> v[2] # <<>>
      [] v[1] \in {"isoformat", "date"} -> TRUE

\* d.get(k, default) on a dict payload
Get(d, k, default) == IF k \in DOMAIN d THEN d[k] ELSE default

-----------------------------------------------------------------------------
(* process_offer: the field table.  Each row is one output field of the      *)
(* record: the key(s) read from the offer, most preferred first, the default *)
(* given to .get(), and the kind of data the field holds.                    *)

Row(o, s, d, k) == [out |-> o, src |-> s, dflt |-> d, kind |-> k]

FieldTable ==
    << Row("gpu_name", <<"gpu_name">>, PyNone, "str"),
       Row("num_gpus", <<"num_gpus">>, PyNone, "num"),
       Row("gpu_ram", <<"gpu_ram">>, PyNone, "num"),
       Row("gpu_total_ram", <<"gpu_totalram">>, PyNone, "num"),
       Row("total_flops", <<"total_flops">>, PyNone, "num"),
       Row("dlperf", <<"dlperf">>, PyNone, "num"),
       Row("dlperf_per_dphtotal", <<"dlperf_per_dphtotal">>, PyNone, "num"),
       Row("machine_id", <<"machine_id">>, PyNone, "num"),
       Row("host_id", <<"host_id">>, PyNone, "num"),
       Row("reliability", <<"reliability2", "reliability">>, PyNone, "num"),
       Row("geolocation", <<"geolocation">>, PyNone, "str"),
       Row("datacenter", <<"datacenter">>, PyBool(FALSE), "bool"),
       Row("verified", <<"verified">>, PyBool(FALSE), "bool"),
       Row("inet_down", <<"inet_down">>, PyNone, "num"),
       Row("inet_up", <<"inet_up">>, PyNone, "num"),
       Row("static_ip", <<"static_ip">>, PyBool(FALSE), "bool"),
       Row("direct_port_count", <<"direct_port_count">>, PyNone, "num"),
       Row("cpu_cores", <<"cpu_cores">>, PyNone, "num"),
       Row("cpu_ghz", <<"cpu_ghz">>, PyNone, "num"),
       Row("cpu_name", <<"cpu_name">>, PyNone, "str"),
       Row("disk_space", <<"disk_space">>, PyNone, "num"),
       Row("disk_bw", <<"disk_bw">>, PyNone, "num"),
       Row("dph_total", <<"dph_total">>, PyNone, "num"),
       Row("dph_base", <<"dph_base">>, PyNone, "num"),
       Row("storage_cost", <<"storage_cost">>, PyNone, "num"),
       Row("inet_up_cost", <<"inet_up_cost">>, PyNone, "num"),
       Row("inet_down_cost", <<"inet_down_cost">>, PyNone, "num"),
       Row("rented", <<"rented">>, PyBool(FALSE), "bool"),
       Row("num_renting", <<"num_renting">>, PyInt(0), "num"),
       Row("duration", <<"duration">>, PyNone, "num"),
       Row("min_bid", <<"min_bid">>, PyNone, "num"),
       Row("cuda_max_good", <<"cuda_max_good">>, PyNone, "num"),
       Row("compute_cap", <<"compute_cap">>, PyNone, "num"),
       Row("pci_gen", <<"pci_gen">>, PyNone, "num"),
       Row("pcie_bw", <<"pcie_bw">>, PyNone, "num") >>

TimeFields == {"timestamp", "date", "hour", "day_of_week", "is_weekend"}
OfferFields == {FieldTable[i].out : i \in DOMAIN FieldTable}
RecordFields == TimeFields \cup OfferFields
NumericFields == {FieldTable[i].out : i \in {j \in DOMAIN FieldTable : FieldTable[j].kind = "num"}}
SourceKeys == UNION {{FieldTable[i].src[j] : j \in DOMAIN FieldTable[i].src} : i \in DOMAIN FieldTable}

RowByField ==
    [f \in OfferFields |-> FieldTable[CHOOSE i \in DOMAIN FieldTable : FieldTable[i].out = f]]
RowOf(f) == RowByField[f]

\* offer.get(k1, offer.get(k2, ... default)) for the keys of a row
RECURSIVE Lookup(_, _, _)
Lookup(d, keys, default) ==
    IF keys = <<>> THEN default
    ELSE Get(d, Head(keys), Lookup(d, Tail(keys), default))

\* the clock counts ticks; a day of the model has HoursPerDay hours of
\* TicksPerHour ticks, and day 0 is a Monday
TicksPerHour == 2
HoursPerDay == 24
DaysPerWeek == 7
WeekendFrom == 5

hour_of(now) == (now \div TicksPerHour) % HoursPerDay
date_of(now) == now \div (TicksPerHour * HoursPerDay)
weekday_of(now) == date_of(now) % DaysPerWeek

\* only a dict has the .get the projection calls
Projectable(offer) == offer[1] = "dict"

\* process_offer with 0 as the default of every numeric field
process_offer_zero_defaults(offer, now) ==
    [f \in RecordFields |->
        CASE f = "timestamp" -> PyIso(now)
          [] f = "date" -> PyDate(date_of(now))
          [] f = "hour" -> PyInt(hour_of(now))
          [] f = "day_of_week" -> PyInt(weekday_of(now))
          [] f = "is_weekend" -> PyBool(weekday_of(now) >= WeekendFrom)
          [] OTHER -> Lookup(offer[2], RowOf(f).src,
                             IF RowOf(f).kind = "num" THEN PyInt(0) ELSE RowOf(f).dflt)]

\* the record process_offer returns for a dict offer when datetime.now() = now
process_offer(offer, now) ==
    [f \in RecordFields |->
        CASE f = "timestamp" -> PyIso(now)
          [] f = "date" -> PyDate(date_of(now))
          [] f = "hour" -> PyInt(hour_of(now))
          [] f = "day_of_week" -> PyInt(weekday_of(now))
          [] f = "is_weekend" -> PyBool(weekday_of(now) >= WeekendFrom)
          [] OTHER -> Lookup(offer[2], RowOf(f).src, RowOf(f).dflt)]

-----------------------------------------------------------------------------
(* json.dump / json.load: a JSON value is a tag and a payload too.           *)

ToJson(v) ==
    CASE v[1] = "NoneType" -> <<"null", 0>>
      [] v[1] = "bool" -> <<"boolean", v[2]>>
      [] v[1] = "int" -> <<"number", v[2]>>
      [] v[1] = "str" -> <<"string", v[2]>>
      [] v[1] = "isoformat" -> <<"string:isoformat", v[2]>>
      [] v[1] = "date" -> <<"string:date", v[2]>>

FromJson(j) ==
    CASE j[1] = "null" -> PyNone
      [] j[1] = "boolean" -> PyBool(j[2])
      [] j[1] = "number" -> PyInt(j[2])
      [] j[1] = "string" -> PyStr(j[2])
      [] j[1] = "string:isoformat" -> PyIso(j[2])
      [] j[1] = "string:date" -> PyDate(j[2])

\* json.dump(records, f, indent=2): an array of objects
json_dump(recs) ==
    <<"array", [i \in DOMAIN recs |-> [f \in DOMAIN recs[i] |-> ToJson(recs[i][f])]]>>

\* json.load(f) of a document: a list for an array, a dict for an object
json_load(doc) ==
    IF doc[1] = "array"
    THEN PyList([i \in DOMAIN doc[2] |-> [f \in DOMAIN doc[2][i] |-> FromJson(doc[2][i][f])]])
    ELSE PyDict([f \in DOMAIN doc[2] |-> FromJson(doc[2][f])])

\* the dataset file: missing, a JSON document, or text that is not JSON
FileMissing == <<"missing", 0>>
FileJson(doc) == <<"json", doc>>
FileGarbage == <<"garbage", 0>>

-----------------------------------------------------------------------------
(* The inputs the model draws from.                                          *)

\* an offer with every key the projection reads
FullOffer ==
    PyDict([k \in SourceKeys |->
        CASE k \in {"gpu_name", "geolocation", "cpu_name"} -> PyStr("A100")
          [] k \in {"datacenter", "verified", "static_ip", "rented"} -> PyBool(TRUE)
          [] k = "dph_total" -> PyInt(10)
          [] k = "reliability2" -> PyInt(2)
          [] OTHER -> PyInt(1)])
\* an offer that is free of charge and has no reliability2
FreeOffer ==
    PyDict([k \in {"gpu_name", "dph_total", "reliability", "rented"} |->
        CASE k = "gpu_name" -> PyStr("A100")
          [] k = "dph_total" -> PyInt(0)
          [] k = "reliability" -> PyInt(1)
          [] OTHER -> PyBool(FALSE)])
\* an offer with no key at all
EmptyOffer == PyDict([k \in {} |-> PyNone])
\* an element of the offers list that is not an object
BadOffer == PyStr("not-an-offer")

Offers == {FullOffer, FreeOffer, EmptyOffer, BadOffer}

RECURSIVE SeqsUpTo(_, _)
SeqsUpTo(S, n) ==
    IF n = 0 THEN {<<>>}
    ELSE LET shorter == SeqsUpTo(S, n - 1)
         IN shorter \cup {Append(s, x) : s \in {t \in shorter : Len(t) = n - 1}, x \in S}

\* response bodies: JSON with an "offers" list, JSON without it, not JSON
Bodies ==
    {<<"json", [k \in {"offers"} |-> PyList(s)]>> : s \in SeqsUpTo(Offers, MaxOffers)}
        \cup {<<"json", [k \in {} |-> PyNone]>>, <<"garbage", 0>>}

HTTP_OK == 200
Statuses == {HTTP_OK, 500}

NoKey == "<unset>"
Environs == {NoKey, "", "sk-1"}

\* the datasets earlier runs left behind, and files no run of the script wrote
OldDatasets ==
    { <<>>,
      <<process_offer(EmptyOffer, 0), process_offer(FullOffer, 1)>> }
Files ==
    {FileMissing, FileGarbage, FileJson(<<"object", [k \in {} |-> <<"null", 0>>]>>)}
        \cup {FileJson(json_dump(d)) : d \in OldDatasets}

-----------------------------------------------------------------------------
(* get_summary_stats                                                         *)

RECURSIVE Insert(_, _)
Insert(x, s) ==
    IF s = <<>> THEN <<x>>
    ELSE IF x <= Head(s) THEN <<x>> \o s
    ELSE <<Head(s)>> \o Insert(x, Tail(s))

\* sorted(prices)
RECURSIVE sorted(_)
sorted(s) == IF s = <<>> THEN <<>> ELSE Insert(Head(s), sorted(Tail(s)))

\* round(x, ndigits) of an int is that int
round(x, ndigits) == x

\* round(rented / total * 100, 1), in tenths of a percent
rental_rate(rented, total) ==
    IF total > 0 THEN (2 * 1000 * rented + total) \div (2 * total) ELSE 0

\* the test of line 229 that lets a record's price into price_by_gpu
HasPrice(r) == Truthy(Get(r, "dph_total", PyNone))

\* the lower middle index instead
MedianIndexLower(n) == (n - 1) \div 2

\* index (0-based) of the element taken as the median of n sorted prices
MedianIndex(n) == n \div 2

\* records[-1]["timestamp"] and the records that share it
latest_batch(recs) ==
    SelectSeq(recs, LAMBDA r : r["timestamp"] = recs[Len(recs)]["timestamp"])

gpu_of(r) == Get(r, "gpu_name", PyStr("Unknown"))

\* price_by_gpu[gpu], in the order of the batch
price_by_gpu(batch, gpu) ==
    LET priced == SelectSeq(batch, LAMBDA r : gpu_of(r) = gpu /\ HasPrice(r))
    IN [i \in DOMAIN priced |-> priced[i]["dph_total"][2]]

\* stats[gpu]
gpu_stats(batch, gpu) ==
    LET total == Len(SelectSeq(batch, LAMBDA r : gpu_of(r) = gpu))
        rented == Len(SelectSeq(batch, LAMBDA r : gpu_of(r) = gpu /\ Truthy(Get(r, "rented", PyNone))))
        prices == sorted(price_by_gpu(batch, gpu))
    IN [ total |-> total,
         rented |-> rented,
         available |-> total - rented,
         rental_rate |-> rental_rate(rented, total),
         price_min |-> IF prices # <<>> THEN PyInt(round(prices[1], 3)) ELSE PyNone,
         price_median |-> IF prices # <<>>
                          THEN PyInt(round(prices[MedianIndex(Len(prices)) + 1], 3))
                          ELSE PyNone,
         price_max |-> IF prices # <<>> THEN PyInt(round(prices[Len(prices)], 3)) ELSE PyNone ]

NoStats == [g \in {} |-> 0]

get_summary_stats(recs) ==
    IF recs = <<>> THEN NoStats
    ELSE LET batch == latest_batch(recs)
         IN [g \in {gpu_of(batch[i]) : i \in DOMAIN batch} |-> gpu_stats(batch, g)]

\* print_summary shows the TopN categories with the most records
TopN == 15
Displayed(st) ==
    IF Cardinality(DOMAIN st) <= TopN THEN DOMAIN st
    ELSE CHOOSE S \in SUBSET DOMAIN st :
            /\ Cardinality(S) = TopN
            /\ \A g \in S, h \in (DOMAIN st) \ S : st[g].total >= st[h].total

\* format(gpu, "<20") raises TypeError for None
PrintRaises(st) == \E g \in Displayed(st) : g[1] = "NoneType"

-----------------------------------------------------------------------------
(* Exceptions                                                                *)

\* isinstance(e, ValueError): json.JSONDecodeError, which json.load and
\* response.json() raise, is a subclass of ValueError
IsValueError(e) == e \in {"ValueError", "JSONDecodeError"}

\* `if not api_key`
KeyMissing(key) == key = NoKey \/ key = ""

\* a test that lets server errors through
FetchRefusedClientOnly(status) == status >= 400 /\ status < 500

\* `if response.status_code != 200`
FetchRefused(status) == status # HTTP_OK

\* the new records first
AllRecordsPrepended(existing, new) == new \o existing

\* existing_data + new_records
AllRecords(existing, new) == existing \o new

-----------------------------------------------------------------------------
(* One run of main()                                                         *)

Init ==
    /\ environ \in Environs
    /\ http \in [status : Statuses, body : Bodies]
    /\ file \in Files
    /\ file0 = file
    /\ clock = ClockStart
    /\ pc = "main"
    /\ offers = <<>>
    /\ idx = 1
    /\ records = <<>>
    /\ existing_data = PyList(<<>>)
    /\ all_records = <<>>
    /\ stats = NoStats
    /\ exc = "none"
    /\ raised = "none"
    /\ out = <<>>
    /\ netCalls = 0
    /\ saveCalls = 0
    /\ exitCode = -1

Raise(e) == exc' = e /\ pc' = "except"

\* main prints its banner, enters the try block, and collect_data calls get_api_key
get_api_key ==
    /\ pc = "main"
    /\ IF KeyMissing(environ)
       THEN Raise("ValueError") /\ out' = Append(out, "banner")
       ELSE /\ pc' = "fetch"
            /\ out' = Append(out, "banner")
            /\ exc' = exc
    /\ UNCHANGED <<environ, http, file, file0, clock, offers, idx, records,
                   existing_data, all_records, stats, raised, netCalls,
                   saveCalls, exitCode>>

fetch_vast_offers ==
    /\ pc = "fetch"
    /\ netCalls' = netCalls + 1
    /\ IF FetchRefused(http.status)
       THEN /\ Raise("Exception")
            /\ out' = Append(out, "fetching")
            /\ UNCHANGED <<offers, idx, records>>
       ELSE IF http.body[1] # "json"
       THEN /\ Raise("JSONDecodeError")
            /\ out' = Append(out, "fetching")
            /\ UNCHANGED <<offers, idx, records>>
       ELSE /\ offers' = Get(http.body[2], "offers", PyList(<<>>))[2]
            /\ out' = out \o <<"fetching", "fetched", "processing">>
            /\ idx' = 1
            /\ records' = <<>>
            /\ pc' = "process"
            /\ exc' = exc
    /\ UNCHANGED <<environ, http, file, file0, clock, existing_data,
                   all_records, stats, raised, saveCalls, exitCode>>

\* a loop without the try: the error leaves collect_data
AbortOnOfferError ==
    /\ Raise("AttributeError")
    /\ idx' = idx + 1
    /\ UNCHANGED <<out, records>>

\* the except branch of the loop: log the offer and go on with the next one
SkipOffer ==
    /\ out' = Append(out, "offer-error")
    /\ idx' = idx + 1
    /\ UNCHANGED <<records, pc, exc>>

\* one iteration of the loop of collect_data
project_offer ==
    /\ pc = "process"
    /\ idx <= Len(offers)
    /\ \E now \in {clock + t : t \in Ticks} :
        /\ clock' = now
        /\ IF Projectable(offers[idx])
           THEN /\ records' = Append(records, process_offer(offers[idx], now))
                /\ idx' = idx + 1
                /\ UNCHANGED <<out, pc, exc>>
           ELSE SkipOffer
    /\ UNCHANGED <<environ, http, file, file0, offers, existing_data,
                   all_records, stats, raised, netCalls, saveCalls, exitCode>>

\* collect_data returns; main ends the run when it returned nothing
collect_return ==
    /\ pc = "process"
    /\ idx > Len(offers)
    /\ IF records = <<>>
       THEN /\ out' = out \o <<"processed", "no-data">>
            /\ pc' = "done"
            /\ exitCode' = 0
       ELSE /\ out' = Append(out, "processed")
            /\ pc' = "load"
            /\ exitCode' = exitCode
    /\ UNCHANGED <<environ, http, file, file0, clock, offers, idx, records,
                   existing_data, all_records, stats, exc, raised, netCalls,
                   saveCalls>>

load_existing_data ==
    /\ pc = "load"
    /\ \E denied \in BOOLEAN :
        CASE file = FileMissing ->
                existing_data' = PyList(<<>>) /\ pc' = "append" /\ exc' = exc
          [] file # FileMissing /\ denied ->
                Raise("PermissionError") /\ UNCHANGED existing_data
          [] file # FileMissing /\ ~denied /\ file = FileGarbage ->
                Raise("JSONDecodeError") /\ UNCHANGED existing_data
          [] OTHER ->
                existing_data' = json_load(file[2]) /\ pc' = "append" /\ exc' = exc
    /\ UNCHANGED <<environ, http, file, file0, clock, offers, idx, records,
                   all_records, stats, raised, out, netCalls, saveCalls, exitCode>>

\* main prints the number of existing records and appends the new ones
append_records ==
    /\ pc = "append"
    /\ out' = Append(out, "existing")
    /\ IF existing_data[1] = "list"
       THEN /\ all_records' = AllRecords(existing_data[2], records)
            /\ pc' = "save"
            /\ exc' = exc
       ELSE Raise("TypeError") /\ UNCHANGED all_records
    /\ UNCHANGED <<environ, http, file, file0, clock, offers, idx, records,
                   existing_data, stats, raised, netCalls, saveCalls, exitCode>>

save_data ==
    /\ pc = "save"
    /\ saveCalls' = saveCalls + 1
    /\ \E denied \in BOOLEAN :
        IF denied
        THEN Raise("PermissionError") /\ UNCHANGED <<file, out>>
        ELSE /\ file' = FileJson(json_dump(all_records))
             /\ out' = Append(out, "saved")
             /\ pc' = "stats"
             /\ exc' = exc
    /\ UNCHANGED <<environ, http, file0, clock, offers, idx, records,
                   existing_data, all_records, stats, raised, netCalls, exitCode>>

summarise ==
    /\ pc = "stats"
    /\ stats' = get_summary_stats(all_records)
    /\ pc' = "print"
    /\ UNCHANGED <<environ, http, file, file0, clock, offers, idx, records,
                   existing_data, all_records, exc, raised, out, netCalls,
                   saveCalls, exitCode>>

print_summary ==
    /\ pc = "print"
    /\ IF PrintRaises(stats)
       THEN /\ Raise("TypeError")
            /\ out' = Append(out, "summary-header")
            /\ exitCode' = exitCode
       ELSE /\ out' = out \o <<"summary-header", "summary-rows", "complete">>
            /\ pc' = "done"
            /\ exitCode' = 0
            /\ exc' = exc
    /\ UNCHANGED <<environ, http, file, file0, clock, offers, idx, records,
                   existing_data, all_records, stats, raised, netCalls, saveCalls>>

\* the except clauses of main: ValueError ends the run normally, anything
\* else is printed and raised again, which ends the process with status 1
handle_exception ==
    /\ pc = "except"
    /\ raised' = exc
    /\ pc' = "done"
    /\ IF IsValueError(exc)
       THEN /\ out' = Append(out, "configuration-error")
            /\ exc' = "none"
            /\ exitCode' = 0
       ELSE /\ out' = out \o <<"error", "traceback">>
            /\ exc' = exc
            /\ exitCode' = 1
    /\ UNCHANGED <<environ, http, file, file0, clock, offers, idx, records,
                   existing_data, all_records, stats, netCalls, saveCalls>>

Next ==
    \/ get_api_key
    \/ fetch_vast_offers
    \/ project_offer
    \/ collect_return
    \/ load_existing_data
    \/ append_records
    \/ save_data
    \/ summarise
    \/ print_summary
    \/ handle_exception

Spec == Init /\ [][Next]_vars

-----------------------------------------------------------------------------
(* get_summary_stats on its own: the datasets it is applied to               *)

StatOffer(gpu, price, rented) ==
    PyDict([k \in {"gpu_name", "dph_total", "rented"} |->
        CASE k = "gpu_name" -> PyStr(gpu)
          [] k = "dph_total" -> price
          [] OTHER -> PyBool(rented)])

StatOffers ==
    {StatOffer("A100", PyInt(p), FALSE) : p \in {0, 10, 20, 30, 40}}
        \cup {StatOffer("A100", PyNone, TRUE), StatOffer("H100", PyInt(10), TRUE)}

\* a dataset of one batch, or of two: the first record at tick 0, the others
\* at tick 1
StatDatasets ==
    {[i \in DOMAIN s |-> process_offer(s[i], IF i <= k THEN 0 ELSE 1)] :
        s \in SeqsUpTo(StatOffers, MaxStatLen), k \in {0, 1}}

InitStats ==
    /\ environ = "sk-1"
    /\ http = [status |-> HTTP_OK, body |-> <<"json", [k \in {} |-> PyNone]>>]
    /\ all_records \in StatDatasets
    /\ file = FileJson(json_dump(all_records))
    /\ file0 = FileMissing
    /\ clock = ClockStart
    /\ pc = "stats"
    /\ offers = <<>>
    /\ idx = 1
    /\ records = <<>>
    /\ existing_data = PyList(<<>>)
    /\ stats = NoStats
    /\ exc = "none"
    /\ raised = "none"
    /\ out = <<>>
    /\ netCalls = 1
    /\ saveCalls = 1
    /\ exitCode = -1

NextStats ==
    \/ summarise
    \/ print_summary

SpecStats == InitStats /\ [][NextStats]_vars

-----------------------------------------------------------------------------
(* Properties                                                                *)

SeqHas(s, x) == \E i \in DOMAIN s : s[i] = x

\* the records of the dataset file when the run started
Prior == IF file0[1] = "json" /\ file0[2][1] = "array" THEN file0[2][2] ELSE <<>>

\* a run that collected records and ended normally with no error raised
Successful ==
    pc = "done" /\ exitCode = 0 /\ raised = "none" /\ records # <<>>

\* C1: after a successful run that started with n persisted records and
\* collected k >= 1 records, the file is an array of n + k records: the n
\* prior records unchanged and in order, then the k new ones in fetch order.
C1_AppendKeepsHistory ==
    Successful =>
        /\ file[1] = "json" /\ file[2][1] = "array"
        /\ Len(file[2][2]) = Len(Prior) + Len(records)
        /\ SubSeq(file[2][2], 1, Len(Prior)) = Prior
        /\ SubSeq(file[2][2], Len(Prior) + 1, Len(file[2][2])) = json_dump(records)[2]

C1_Witness ==
    /\ Successful
    /\ Len(Prior) = 2
    /\ Len(records) = 3
    /\ records[1]["gpu_name"] # records[3]["gpu_name"]

\* C2: all records produced by one run of collect_data carry the same
\* timestamp, whatever time passes between two projections.
C2_OneTimestampPerBatch ==
    \A i, j \in DOMAIN records : records[i]["timestamp"] = records[j]["timestamp"]

\* the fetch stage fails: no credential, or a status that is not success
FetchFails == KeyMissing(environ) \/ http.status # HTTP_OK

\* C3: when the fetch stage fails, save_data is never called and the file
\* keeps the content it had before the run.
C3_FailedFetchWritesNothing ==
    FetchFails => (saveCalls = 0 /\ file = file0)

C3_Witness ==
    /\ pc = "done"
    /\ ~KeyMissing(environ)
    /\ http.status # HTTP_OK
    /\ netCalls = 1
    /\ raised = "Exception"
    /\ Len(Prior) = 2
    /\ http.body[1] = "json"
    /\ "offers" \in DOMAIN http.body[2]

\* C4: an error other than the missing-credential error and the API error
\* leaves main() and the process exits non-zero.
C4_OtherErrorsPropagate ==
    (pc = "done" /\ raised \in {"JSONDecodeError", "TypeError", "PermissionError"})
        => exitCode # 0

\* C5: without a credential the run prints the remediation message, makes no
\* network call and the process ends with an error status.
C5_MissingKeyIsFatal ==
    (pc = "done" /\ KeyMissing(environ)) =>
        /\ SeqHas(out, "configuration-error")
        /\ netCalls = 0
        /\ exitCode # 0

RECURSIVE SumTotals(_, _)
SumTotals(st, S) ==
    IF S = {} THEN 0
    ELSE LET g == CHOOSE x \in S : TRUE
         IN st[g].total + SumTotals(st, S \ {g})

\* C6: the summary of a run counts exactly the records the run appended,
\* each in one category, so the totals sum to the number collected.
C6_SummaryCountsTheRun ==
    pc = "print" =>
        /\ SumTotals(stats, DOMAIN stats) = Len(records)
        /\ \A g \in DOMAIN stats :
              stats[g].total = Cardinality({i \in DOMAIN records : gpu_of(records[i]) = g})

\* prices the code keeps for a category of the last batch, in batch order
KeptPrices(g) == price_by_gpu(latest_batch(all_records), g)
Below(ps, m) == Cardinality({i \in DOMAIN ps : ps[i] < m})
UpTo(ps, m) == Cardinality({i \in DOMAIN ps : ps[i] <= m})
EvenSized(ps) == Len(ps) > 0 /\ Len(ps) % 2 = 0

\* C7 as stated: for an even number of prices the median is the lower of the
\* two middle elements of the ascending list.
C7_LowerMedian ==
    pc = "print" =>
        \A g \in DOMAIN stats :
            EvenSized(KeptPrices(g)) =>
                LET m == stats[g].price_median[2]
                    h == Len(KeptPrices(g)) \div 2
                IN Below(KeptPrices(g), m) <= h - 1 /\ UpTo(KeptPrices(g), m) >= h

\* C7 amended: for an even number of prices the median is the upper of the
\* two middle elements (index floor(n/2) from 0); 10, 20, 30, 40 give 30.
C7_UpperMedian ==
    pc = "print" =>
        \A g \in DOMAIN stats :
            EvenSized(KeptPrices(g)) =>
                LET m == stats[g].price_median[2]
                    h == Len(KeptPrices(g)) \div 2
                IN /\ stats[g].price_median[1] = "int"
                   /\ SeqHas(KeptPrices(g), m)
                   /\ Below(KeptPrices(g), m) <= h
                   /\ UpTo(KeptPrices(g), m) >= h + 1
                   /\ ({KeptPrices(g)[i] : i \in DOMAIN KeptPrices(g)} = {10, 20, 30, 40}
                          /\ Len(KeptPrices(g)) = 4 => m = 30)

C7_Witness ==
    /\ pc = "print"
    /\ PyStr("A100") \in DOMAIN stats
    /\ KeptPrices(PyStr("A100")) = <<40, 10, 30, 20>>
    /\ stats[PyStr("A100")].price_median = PyInt(30)

\* prices of the records of category g in the last batch that are not null
NonNullPrices(g) ==
    LET batch == latest_batch(all_records)
    IN {batch[i]["dph_total"][2] :
            i \in {j \in DOMAIN batch : gpu_of(batch[j]) = g /\ batch[j]["dph_total"] # PyNone}}

\* C8: the price statistics of a category are computed over exactly its
\* records with a non-null price, a price of 0 included.
C8_NonNullPricesCount ==
    pc = "print" =>
        \A g \in DOMAIN stats :
            IF NonNullPrices(g) = {}
            THEN stats[g].price_min = PyNone /\ stats[g].price_max = PyNone
            ELSE /\ stats[g].price_min[1] = "int"
                 /\ stats[g].price_min[2] \in NonNullPrices(g)
                 /\ \A p \in NonNullPrices(g) :
                        stats[g].price_min[2] <= p /\ p <= stats[g].price_max[2]

\* the offers already handled by the loop that could be projected
Projected == SelectSeq(SubSeq(offers, 1, idx - 1), Projectable)

\* no key of field f's row is in the offer
SourceAbsent(offer, f) ==
    \A j \in DOMAIN RowOf(f).src : RowOf(f).src[j] \notin DOMAIN offer[2]

\* C9 as stated: every numeric field, num_renting included, is null when its
\* source key is absent from the listing.
C9_AbsentNumericIsNull ==
    Len(records) = Len(Projected) =>
        \A i \in DOMAIN records : \A f \in NumericFields :
            SourceAbsent(Projected[i], f) => records[i][f] = PyNone

\* C9 amended: every numeric field but num_renting is null when its source
\* key is absent; num_renting is then 0; the boolean flags are then false.
C9_AbsentNumericIsNullButNumRenting ==
    /\ Len(records) = Len(Projected)
    /\ \A i \in DOMAIN records : \A f \in OfferFields :
          SourceAbsent(Projected[i], f) =>
              records[i][f] = CASE f = "num_renting" -> PyInt(0)
                                [] RowOf(f).kind = "bool" -> PyBool(FALSE)
                                [] OTHER -> PyNone

C9_Witness ==
    /\ Len(records) = 2
    /\ Projected = <<FreeOffer, EmptyOffer>>
    /\ records[2]["min_bid"] = PyNone
    /\ records[2]["num_renting"] = PyInt(0)
    /\ records[1]["reliability"] = PyInt(1)

\* an offer the loop has handled could not be projected
SomeFailed == \E i \in 1 .. idx - 1 : i <= Len(offers) /\ ~Projectable(offers[i])
CollectReturned == SeqHas(out, "processed")

\* C10 as stated: a listing that cannot be projected is skipped, and the run
\* goes on to load, append and save.
C10_SkipAndSave ==
    (SomeFailed /\ pc = "done" /\ raised = "none") => saveCalls = 1

\* C10 amended: a listing that cannot be projected is skipped and the others
\* are projected in order; the run then loads, appends and saves when at
\* least one listing was projected, and ends without saving when none was.
C10_SkipAndSaveIfAny ==
    SomeFailed =>
        /\ exc # "AttributeError" /\ raised # "AttributeError"
        /\ Len(records) = Len(Projected)
        /\ \A i \in DOMAIN records :
              records[i] = process_offer(Projected[i], records[i]["timestamp"][2])
        /\ CollectReturned => idx = Len(offers) + 1
        /\ (pc = "done" /\ raised = "none") =>
              IF records # <<>>
              THEN saveCalls = 1 /\ file = FileJson(<<"array", Prior \o json_dump(records)[2]>>)
              ELSE saveCalls = 0 /\ file = file0 /\ SeqHas(out, "no-data")

C10_Witness ==
    /\ pc = "done"
    /\ raised = "none"
    /\ offers = <<FullOffer, BadOffer, FreeOffer>>
    /\ Len(records) = 2
    /\ saveCalls = 1

=============================================================================
